---- MODULE Spec2Model ----
(***************************************************************************)
(* rustifile readers: the FileReader capability and its two               *)
(* implementations, CsvReader (src/readers/csv.rs) and JsonStreamReader    *)
(* (src/readers/jsonstream.rs).                                            *)
(*                                                                         *)
(* One reader instance is modelled, of the kind its configuration's tag   *)
(* selects.  read_item takes &mut self, so calls on one instance never     *)
(* overlap: each call is one atomic action, whoever the caller is.         *)
(***************************************************************************)
EXTENDS Naturals, Sequences, FiniteSets

\* ------------------------------------------------------------------ bounds
\* Rows (header included) of a delimited file / values of a JSON stream.
MaxRows == 3
\* Fields in one row of a delimited file.
MaxFields == 3
\* Distinct well-formed JSON values a stream may hold.
MaxValue == 2
\* read_item calls recorded for one instance.
MaxCalls == 5
\* Bytes of a configured delimiter string.
MaxDelimLen == 2
\* Bytes of a field text enumerated over the whole alphabet.
MaxTextLen == 2

\* ------------------------------------------------------------------- state
VARIABLES
    kind,          \* the configuration's tag: "csv" or "jsonstream"
    flexible,      \* CsvReader.flexible
    file,          \* the content of the file at file_path
    openable,      \* whether File::open(file_path) succeeds right now
    _reader,       \* CsvReader._reader is Some
    _iterator,     \* JsonStreamReader._iterator is Some
    _initialized,  \* the _initialized field of either reader
    pos,           \* cursor of the handle: rows / values consumed so far
    failed,        \* the JSON stream iterator has met a malformed value
    poisoned,      \* the Mutex around the JSON iterator is poisoned
    open_log,      \* outcome of every File::open this instance performed
    results,       \* what every read_item call returned, in call order
    tag,           \* the "type" field of the configuration
    delimiter,     \* CsvReader.delimiter, a string of bytes
    sep,           \* the byte that separates the fields of the row as written
    cols,          \* the field texts of one data row, as written to the file
    parsed         \* the fields read_item built from that row, once read

\* The byte-level view of one row; the row-level actions leave it alone.
textvars == <<tag, delimiter, sep, cols, parsed>>

vars == <<kind, flexible, file, openable, _reader, _iterator, _initialized,
          pos, failed, poisoned, open_log, results, tag, delimiter, sep, cols,
          parsed>>

\* The callers that may hold the reader.
Callers == {1, 2}

\* A malformed JSON value in a stream; 1..MaxValue are well-formed values.
Malformed == 0

SeqsUpTo(S, n) == UNION {[1..k -> S] : k \in 0..n}

\* ----------------------------------------------------------------- results
\* Option<Result<Value, ReaderError>>: Some(Ok(v)), Some(Err(e)), None.
\* src is the row / value of the file the result was built from (0: none),
\* val the content of a record.
\* msg is the reason string of an InitializationError.
OkItem(src, val) == [tag |-> "Ok", err |-> "", msg |-> "", src |-> src, val |-> val]

ErrItem(err, src) == [tag |-> "Err", err |-> err, msg |-> "", src |-> src, val |-> 0]

InitializationError(msg) ==
    [tag |-> "Err", err |-> "InitializationError", msg |-> msg, src |-> 0, val |-> 0]

NoneItem == [tag |-> "None", err |-> "", msg |-> "", src |-> 0, val |-> 0]

Returned(c, r) ==
    [by |-> c, tag |-> r.tag, err |-> r.err, msg |-> r.msg, src |-> r.src, val |-> r.val]

\* ------------------------------------------------------------ construction
\* default_delimiter(): a comma.
default_delimiter == <<",">>

\* A freshly built instance of either reader struct (from a configuration
\* or, as in the tests, a struct literal): flexible, delimiter and
\* _initialized are serde fields, the handle is #[serde(skip)] and so starts
\* as None.  No file is opened.  Construction by tag is in SpecText.
Init ==
    /\ kind \in {"csv", "jsonstream"}
    /\ flexible \in (IF kind = "csv" THEN BOOLEAN ELSE {FALSE})
    /\ file \in (IF kind = "csv" THEN SeqsUpTo(1..MaxFields, MaxRows)
                                 ELSE SeqsUpTo(0..MaxValue, MaxRows))
    /\ openable \in BOOLEAN
    /\ _initialized \in BOOLEAN
    /\ _reader = FALSE
    /\ _iterator = FALSE
    /\ pos = 0
    /\ failed = FALSE
    /\ poisoned = FALSE
    /\ open_log = <<>>
    /\ results = <<>>
    /\ tag = kind
    /\ delimiter \in (IF kind = "csv" THEN {default_delimiter, <<";", ",">>}
                                      ELSE {<<>>})
    /\ sep = ","
    /\ cols = <<>>
    /\ parsed = [read |-> FALSE, records |-> <<>>]

\* --------------------------------------------------------------- CsvReader
\* Variants of deserialize().next() with a plausible slip each.
\* The header row is not set apart (has_headers(false)).
CsvDeserializeNext_KeepsHeader(p) ==
    IF p >= Len(file)
    THEN [pos |-> p, out |-> NoneItem]
    ELSE [pos |-> p + 1,
          out |-> IF ~flexible /\ file[p + 1] # file[1]
                  THEN ErrItem("CsvError", p + 1)
                  ELSE IF file[p + 1] < file[1]
                  THEN ErrItem("CsvError", p + 1)
                  ELSE OkItem(p + 1, file[1])]

\* A row of the wrong length is reported without being consumed.
CsvDeserializeNext_ErrorStops(p) ==
    LET p1 == IF p = 0 /\ Len(file) > 0 THEN 1 ELSE p
    IN  IF p1 >= Len(file)
        THEN [pos |-> p1, out |-> NoneItem]
        ELSE IF ~flexible /\ file[p1 + 1] # file[1]
        THEN [pos |-> p1, out |-> ErrItem("CsvError", p1 + 1)]
        ELSE [pos |-> p1 + 1,
              out |-> IF file[p1 + 1] < file[1]
                      THEN ErrItem("CsvError", p1 + 1)
                      ELSE OkItem(p1 + 1, file[1])]

\* A row shorter than the header ends the iteration.
CsvDeserializeNext_ShortRowEnds(p) ==
    LET p1 == IF p = 0 /\ Len(file) > 0 THEN 1 ELSE p
    IN  IF p1 >= Len(file)
        THEN [pos |-> p1, out |-> NoneItem]
        ELSE [pos |-> p1 + 1,
              out |-> IF ~flexible /\ file[p1 + 1] # file[1]
                      THEN ErrItem("CsvError", p1 + 1)
                      ELSE IF file[p1 + 1] < file[1]
                      THEN NoneItem
                      ELSE OkItem(p1 + 1, file[1])]

\* reader.deserialize().next(): the first call reads the header row; a row
\* is consumed before it is checked, so an error leaves the cursor behind it.
\* A row is the number of its fields.
CsvDeserializeNext(p) ==
    LET p1 == IF p = 0 /\ Len(file) > 0 THEN 1 ELSE p
    IN  IF p1 >= Len(file)
        THEN [pos |-> p1, out |-> NoneItem]
        ELSE LET row == file[p1 + 1]
                 hdr == file[1]
             IN  [pos |-> p1 + 1,
                  out |-> IF ~flexible /\ row # hdr
                          THEN ErrItem("CsvError", p1 + 1)   \* UnequalLengths
                          ELSE IF row < hdr
                          THEN ErrItem("CsvError", p1 + 1)   \* UnexpectedEndOfRow
                          ELSE OkItem(p1 + 1, hdr)]

\* Variants of CsvReader::read_item with a plausible slip each.
\* A failed open is reported as the reader's own InitializationError.
CsvReadItemStep_InitError ==
    IF ~_reader /\ ~openable
    THEN [reader |-> FALSE, initialized |-> TRUE, pos |-> pos, opened |-> <<FALSE>>,
          out |-> IF _initialized THEN NoneItem
                  ELSE InitializationError("Cannot open file")]
    ELSE LET d == CsvDeserializeNext(pos)
         IN  [reader |-> TRUE, initialized |-> _initialized, pos |-> d.pos,
              opened |-> IF _reader THEN <<>> ELSE <<TRUE>>, out |-> d.out]

\* A failed init_reader is logged without returning, so the match runs.
CsvReadItemStep_NoEarlyReturn ==
    LET opened == IF _reader THEN <<>> ELSE <<openable>>
        reader1 == IF _reader THEN TRUE ELSE openable
    IN  IF reader1
        THEN LET d == CsvDeserializeNext(pos)
             IN  [reader |-> TRUE, initialized |-> _initialized, pos |-> d.pos,
                  opened |-> opened, out |-> d.out]
        ELSE [reader |-> FALSE, initialized |-> TRUE, pos |-> pos, opened |-> opened,
              out |-> InitializationError("Failed to initialize reader")]

\* A row error marks the reader failed, as an open error does.
CsvReadItemStep_ErrorMarksFailed ==
    IF ~_reader /\ ~openable
    THEN [reader |-> FALSE, initialized |-> TRUE, pos |-> pos, opened |-> <<FALSE>>,
          out |-> IF _initialized THEN NoneItem ELSE ErrItem("IoError", 0)]
    ELSE LET d == CsvDeserializeNext(pos)
         IN  [reader |-> TRUE,
              initialized |-> IF d.out.tag = "Err" THEN TRUE ELSE _initialized,
              pos |-> d.pos,
              opened |-> IF _reader THEN <<>> ELSE <<TRUE>>, out |-> d.out]

\* CsvReader::read_item as a function of the state it is called in:
\* init_reader when _reader is None, with an early return if it fails; then
\* the match on _reader.
CsvReadItemStep ==
    LET opened == IF _reader THEN <<>> ELSE <<openable>>
        reader1 == IF _reader THEN TRUE ELSE openable
    IN  IF ~_reader /\ ~openable
        THEN [reader |-> FALSE, initialized |-> TRUE, pos |-> pos, opened |-> opened,
              out |-> IF _initialized THEN NoneItem ELSE ErrItem("IoError", 0)]
        ELSE IF reader1
        THEN LET d == CsvDeserializeNext(pos)
             IN  [reader |-> TRUE, initialized |-> _initialized, pos |-> d.pos,
                  opened |-> opened, out |-> d.out]
        ELSE [reader |-> FALSE, initialized |-> _initialized, pos |-> pos,
              opened |-> opened,
              out |-> InitializationError("Failed to initialize reader")]

CsvReadItem ==
    /\ kind = "csv"
    /\ Len(results) < MaxCalls
    /\ LET s == CsvReadItemStep
       IN  /\ _reader' = s.reader
           /\ _initialized' = s.initialized
           /\ pos' = s.pos
           /\ open_log' = open_log \o s.opened
           /\ results' = Append(results, Returned(1, s.out))
    /\ UNCHANGED <<kind, flexible, file, openable, _iterator, failed, poisoned>>
    /\ UNCHANGED textvars

\* -------------------------------------------------------- JsonStreamReader
\* Variant of next() that yields a value without moving past it.
JsonNext_NoAdvance(p, f) ==
    IF f \/ p >= Len(file)
    THEN [pos |-> p, failed |-> f, out |-> NoneItem]
    ELSE IF file[p + 1] = Malformed
    THEN [pos |-> p + 1, failed |-> TRUE, out |-> ErrItem("JsonError", p + 1)]
    ELSE [pos |-> p, failed |-> f, out |-> OkItem(p + 1, file[p + 1])]

\* guard.next() on the stream iterator: one value per call; after a
\* malformed value the iterator is failed and yields nothing more.
JsonNext(p, f) ==
    IF f \/ p >= Len(file)
    THEN [pos |-> p, failed |-> f, out |-> NoneItem]
    ELSE IF file[p + 1] = Malformed
    THEN [pos |-> p + 1, failed |-> TRUE, out |-> ErrItem("JsonError", p + 1)]
    ELSE [pos |-> p + 1, failed |-> f, out |-> OkItem(p + 1, file[p + 1])]

\* Variants of JsonStreamReader::read_item with a plausible slip each.
\* init runs on every call, so each call starts a fresh iterator.
JsonReadItemStep_Reinit ==
    IF ~openable
    THEN [iterator |-> _iterator, initialized |-> TRUE, pos |-> pos, failed |-> failed,
          opened |-> <<FALSE>>, out |-> ErrItem("IoError", 0)]
    ELSE IF poisoned
    THEN [iterator |-> TRUE, initialized |-> _initialized, pos |-> pos,
          failed |-> failed, opened |-> <<TRUE>>,
          out |-> InitializationError("Mutex lock poisoned")]
    ELSE LET n == JsonNext(0, FALSE)
         IN  [iterator |-> TRUE, initialized |-> _initialized, pos |-> n.pos,
              failed |-> n.failed, opened |-> <<TRUE>>, out |-> n.out]

\* A poisoned lock is entered all the same (PoisonError::into_inner).
JsonReadItemStep_IgnoresPoison ==
    IF ~_iterator /\ ~openable
    THEN [iterator |-> FALSE, initialized |-> TRUE, pos |-> pos, failed |-> failed,
          opened |-> <<FALSE>>, out |-> ErrItem("IoError", 0)]
    ELSE LET n == JsonNext(pos, failed)
         IN  [iterator |-> TRUE, initialized |-> _initialized, pos |-> n.pos,
              failed |-> n.failed, opened |-> IF _iterator THEN <<>> ELSE <<TRUE>>,
              out |-> n.out]

\* JsonStreamReader::read_item as a function of the state it is called in:
\* init when _iterator is None, with an early return if it fails; then the
\* let-else on _iterator, the lock and next().
JsonReadItemStep ==
    LET opened == IF _iterator THEN <<>> ELSE <<openable>>
        iterator1 == IF _iterator THEN TRUE ELSE openable
    IN  IF ~_iterator /\ ~openable
        THEN [iterator |-> FALSE, initialized |-> TRUE, pos |-> pos,
              failed |-> failed, opened |-> opened, out |-> ErrItem("IoError", 0)]
        ELSE IF ~iterator1
        THEN [iterator |-> FALSE, initialized |-> _initialized, pos |-> pos,
              failed |-> failed, opened |-> opened,
              out |-> InitializationError("JsonStreamReader not initialized")]
        ELSE IF poisoned
        THEN [iterator |-> TRUE, initialized |-> _initialized, pos |-> pos,
              failed |-> failed, opened |-> opened,
              out |-> InitializationError("Mutex lock poisoned")]
        ELSE LET n == JsonNext(pos, failed)
             IN  [iterator |-> TRUE, initialized |-> _initialized, pos |-> n.pos,
                  failed |-> n.failed, opened |-> opened, out |-> n.out]

JsonReadItem(c) ==
    /\ kind = "jsonstream"
    /\ Len(results) < MaxCalls
    /\ LET s == JsonReadItemStep
       IN  /\ _iterator' = s.iterator
           /\ _initialized' = s.initialized
           /\ pos' = s.pos
           /\ failed' = s.failed
           /\ open_log' = open_log \o s.opened
           /\ results' = Append(results, Returned(c, s.out))
    /\ UNCHANGED <<kind, flexible, file, openable, _reader, poisoned>>
    /\ UNCHANGED textvars

\* A read_item call whose guard.next() panics: the MutexGuard is dropped
\* during unwinding, which poisons the Mutex; the call returns nothing.
JsonReadItemPanics ==
    /\ kind = "jsonstream"
    /\ _iterator \/ openable
    /\ ~poisoned
    /\ _iterator' = TRUE
    /\ open_log' = open_log \o (IF _iterator THEN <<>> ELSE <<TRUE>>)
    /\ poisoned' = TRUE
    /\ UNCHANGED <<kind, flexible, file, openable, _reader, _initialized, pos,
                   failed, results>>
    /\ UNCHANGED textvars

\* ------------------------------------------------------------- environment
\* The file at file_path is created or removed between two calls.  Only
\* init_reader / init read the path, and only while the handle is None, so
\* changes after the handle is held are not tracked.
SetOpenable ==
    /\ ~_reader /\ ~_iterator
    /\ openable' = ~openable
    /\ UNCHANGED <<kind, flexible, file, _reader, _iterator, _initialized, pos,
                   failed, poisoned, open_log, results>>
    /\ UNCHANGED textvars

Next ==
    \/ CsvReadItem
    \/ \E c \in Callers : JsonReadItem(c)
    \/ JsonReadItemPanics
    \/ SetOpenable

Spec == Init /\ [][Next]_vars

\* ------------------------------------------------- one row, byte by byte
\* Texts are sequences of one-character strings.
SepBytes == {",", ";", "\t"}

TextAlphabet == {"1", "-", ".", "e", "a"}

Digit == {"0", "1", "2", "3", "4", "5", "6", "7", "8", "9"}

\* Field texts taken from the tests and the grammar's corner cases.
SampleTexts ==
    { <<>>,
      <<"t", "r", "u", "e">>, <<"f", "a", "l", "s", "e">>, <<"T", "r", "u", "e">>,
      <<"8", "4", "1", "9">>, <<"-", "1", "6", "5", ".", "2", "7">>,
      <<"6", "5", ".", "2", "4">>, <<"+", "5">>, <<"1", "e", "3">>, <<"1", "E", "-", "3">>,
      <<"1", ".">>, <<".", "5">>, <<"e", "1">>, <<"A", "K">>,
      <<"N", "a", "N">>, <<"n", "a", "n">>, <<"i", "n", "f">>, <<"-", "i", "n", "f">>,
      <<"a", ",", "b">>, <<"a", ";", "b">> }

FieldTexts == SampleTexts \cup SeqsUpTo(TextAlphabet, MaxTextLen)

Contains(t, b) == \E i \in DOMAIN t : t[i] = b

\* The tags of the FileReader implementations compiled into the crate:
\* readers/mod.rs declares the modules csv and errors, and no other.
Registry == {"csv"}

\* typetag's deserialization of Box<dyn FileReader> by the "type" field.
Dispatch(t) == IF t \in Registry THEN t ELSE "config_error"

\* The byte init_reader hands to ReaderBuilder::delimiter, and variants.
DelimiterByte_Last(d) == IF d = <<>> THEN "," ELSE d[Len(d)]

DelimiterByte(d) == IF d = <<>> THEN "," ELSE d[1]

\* writeln!(file, ...) of one row: the fields joined by the separator.
RECURSIVE JoinFields(_, _)
JoinFields(fs, b) ==
    IF Len(fs) <= 1 THEN (IF fs = <<>> THEN <<>> ELSE fs[1])
    ELSE fs[1] \o <<b>> \o JoinFields(Tail(fs), b)

\* The csv reader's scan of one unquoted line into fields on byte b.
RECURSIVE SplitFrom(_, _, _, _)
SplitFrom(line, b, i, cur) ==
    IF i > Len(line) THEN <<cur>>
    ELSE IF line[i] = b THEN <<cur>> \o SplitFrom(line, b, i + 1, <<>>)
    ELSE SplitFrom(line, b, i + 1, Append(cur, line[i]))

\* ASCII lower-casing of the letters the numeral grammar names.
Lower(c) ==
    CASE c = "N" -> "n" [] c = "A" -> "a" [] c = "I" -> "i" [] c = "F" -> "f"
      [] c = "T" -> "t" [] c = "Y" -> "y" [] c = "E" -> "e" [] OTHER -> c

LowerText(t) == [i \in DOMAIN t |-> Lower(t[i])]

AllDigits(t) == \A i \in DOMAIN t : t[i] \in Digit

Unsigned(t, signs) == IF t # <<>> /\ t[1] \in signs THEN Tail(t) ELSE t

\* str::parse::<u64>() and str::parse::<i64>() succeed (short of overflow).
IsU64(t) == LET d == Unsigned(t, {"+"}) IN d # <<>> /\ AllDigits(d)

IsI64(t) == LET d == Unsigned(t, {"+", "-"}) IN d # <<>> /\ AllDigits(d)

\* str::parse::<f64>(): [sign] (inf | infinity | nan | decimal [exponent]).
IsNonFinite(t) ==
    LowerText(Unsigned(t, {"+", "-"}))
        \in { <<"n", "a", "n">>, <<"i", "n", "f">>,
              <<"i", "n", "f", "i", "n", "i", "t", "y">> }

IsMantissa(m) ==
    \E k \in 0..Len(m) :
        LET a == SubSeq(m, 1, k)
            r == SubSeq(m, k + 1, Len(m))
        IN  /\ AllDigits(a)
            /\ \/ r = <<>> /\ a # <<>>
               \/ /\ r # <<>> /\ r[1] = "."
                  /\ AllDigits(Tail(r))
                  /\ a # <<>> \/ Tail(r) # <<>>

IsExponent(x) ==
    \/ x = <<>>
    \/ /\ Lower(x[1]) = "e"
       /\ LET d == Unsigned(Tail(x), {"+", "-"}) IN d # <<>> /\ AllDigits(d)

IsFloat(t) ==
    \/ IsNonFinite(t)
    \/ LET u == Unsigned(t, {"+", "-"})
       IN  \E k \in 0..Len(u) :
               IsMantissa(SubSeq(u, 1, k)) /\ IsExponent(SubSeq(u, k + 1, Len(u)))

\* A serde_json Value built from a field: its variant and its text.
Val(type, t) == [type |-> type, text |-> t]

\* Deserializing one field into a Value (Map<String, Value>'s values): the
\* csv deserializer infers bool, then u64, i64, f64, else str; Value's
\* visit_f64 is Number::from_f64(v).map_or(Value::Null, Value::Number), and
\* from_f64 is None for NaN and the infinities.
Coerce(t) ==
    IF t = <<"t", "r", "u", "e">> \/ t = <<"f", "a", "l", "s", "e">> THEN Val("Bool", t)
    ELSE IF IsU64(t) \/ IsI64(t) THEN Val("Number", t)
    ELSE IF IsFloat(t) THEN (IF IsNonFinite(t) THEN Val("Null", <<>>) ELSE Val("Number", t))
    ELSE Val("String", t)

\* The records deserialize() yields for a one-row body: a blank line is
\* skipped, any other line gives one record of coerced fields.
ParseLine(line, b) ==
    IF line = <<>> THEN <<>>
    ELSE LET fs == SplitFrom(line, b, 1, <<>>)
         IN  << [i \in DOMAIN fs |-> [text |-> fs[i], value |-> Coerce(fs[i])]] >>

NotRead == [read |-> FALSE, records |-> <<>>]

\* A configuration before construction, and for a csv configuration one
\* data row written with separator sep (no field holds it: nothing is quoted).
InitText ==
    /\ tag \in {"csv", "jsonstream", "xml"}
    /\ kind = "unbuilt"
    /\ delimiter \in (IF tag = "csv" THEN SeqsUpTo(SepBytes, MaxDelimLen) ELSE {<<>>})
    /\ sep \in (IF tag = "csv" THEN SepBytes ELSE {","})
    /\ cols \in (IF tag = "csv"
                 THEN {<<t>> : t \in {u \in FieldTexts : ~Contains(u, sep)}}
                      \cup {<<t, u>> : t, u \in {v \in SampleTexts : ~Contains(v, sep)}}
                 ELSE {<<>>})
    /\ parsed = NotRead
    /\ flexible = FALSE
    /\ file = <<>>
    /\ openable = TRUE
    /\ _initialized = FALSE
    /\ _reader = FALSE
    /\ _iterator = FALSE
    /\ pos = 0
    /\ failed = FALSE
    /\ poisoned = FALSE
    /\ open_log = <<>>
    /\ results = <<>>

\* Deserializing the configuration into a Box<dyn FileReader>.
Construct ==
    /\ kind = "unbuilt"
    /\ kind' = Dispatch(tag)
    /\ UNCHANGED <<flexible, file, openable, _reader, _iterator, _initialized, pos,
                   failed, poisoned, open_log, results, tag, delimiter, sep, cols,
                   parsed>>

\* The read_item call that reads the data row: init_reader builds the csv
\* reader on the delimiter byte, deserialize() splits and coerces the row.
ReadRow ==
    /\ kind = "csv"
    /\ ~parsed.read
    /\ parsed' = [read |-> TRUE,
                  records |-> ParseLine(JoinFields(cols, sep), DelimiterByte(delimiter))]
    /\ _reader' = TRUE
    /\ open_log' = Append(open_log, TRUE)
    /\ UNCHANGED <<kind, flexible, file, openable, _iterator, _initialized, pos,
                   failed, poisoned, results, tag, delimiter, sep, cols>>

NextText == Construct \/ ReadRow

SpecText == InitText /\ [][NextText]_vars

\* ------------------------------------------------------- the caller's loop
\* while let Some(item) = reader.read_item() { ... }: the caller calls again
\* until it is told end-of-stream.  Only the last call's open and the last
\* one or two results are kept (the log is cut when it holds two), and the
\* file's condition does not change while the loop runs.
ToldEndOfStream ==
    IF results = <<>> THEN FALSE ELSE results[Len(results)].tag = "None"

Logged(r) == IF Len(results) >= 2 THEN <<r>> ELSE Append(results, r)

CallerLoopCsv ==
    /\ kind = "csv"
    /\ ~ToldEndOfStream
    /\ LET s == CsvReadItemStep
       IN  /\ _reader' = s.reader
           /\ _initialized' = s.initialized
           /\ pos' = s.pos
           /\ open_log' = s.opened
           /\ results' = Logged(Returned(1, s.out))
    /\ UNCHANGED <<kind, flexible, file, openable, _iterator, failed, poisoned>>
    /\ UNCHANGED textvars

CallerLoopJson ==
    /\ kind = "jsonstream"
    /\ ~ToldEndOfStream
    /\ LET s == JsonReadItemStep
       IN  /\ _iterator' = s.iterator
           /\ _initialized' = s.initialized
           /\ pos' = s.pos
           /\ failed' = s.failed
           /\ open_log' = s.opened
           /\ results' = Logged(Returned(1, s.out))
    /\ UNCHANGED <<kind, flexible, file, openable, _reader, poisoned>>
    /\ UNCHANGED textvars

NextLive == CallerLoopCsv \/ CallerLoopJson

\* The loop does not stop of its own before end-of-stream.
SpecLive == Init /\ [][NextLive]_vars /\ WF_vars(NextLive)

\* ------------------------------------------------------------------ claims
\* Every File::open this instance performed has failed.
AllOpensFailed == \A i \in DOMAIN open_log : ~open_log[i]

\* The first File::open this instance performed succeeded.
OpenedAtOnce == open_log # <<>> /\ open_log[1]

\* Number of data rows of a delimited file (the first row is the header).
DataRows == IF Len(file) = 0 THEN 0 ELSE Len(file) - 1

\* Every data row has as many fields as the header.
WellFormedCsv == \A i \in DOMAIN file : file[i] = file[1]

\* Every value of the stream is well-formed JSON.
WellFormedJson == \A i \in DOMAIN file : file[i] # Malformed

\* C1: a CsvReader whose file cannot be opened returns an error on the first
\* read_item call and end-of-stream on every later call.
C1_CsvOpenErrorOnce ==
    (kind = "csv" /\ AllOpensFailed) =>
        \A i \in DOMAIN results :
            results[i].tag = (IF i = 1 THEN "Err" ELSE "None")

\* C2: a JsonStreamReader whose file cannot be opened returns an error on the
\* first read_item call and end-of-stream on every later call.
C2_JsonOpenErrorOnce ==
    (kind = "jsonstream" /\ AllOpensFailed) =>
        \A i \in DOMAIN results :
            results[i].tag = (IF i = 1 THEN "Err" ELSE "None")

\* C3: over the lifetime of one reader instance the file is opened at most
\* once, whether the open succeeds or fails.
C3_OpenedAtMostOnce == Len(open_log) <= 1

\* C4: once a CsvReader has returned the file-open error, every later
\* read_item call returns end-of-stream, even if the file becomes openable.
C4_CsvFailureSticky ==
    kind = "csv" =>
        \A i, j \in DOMAIN results :
            (i < j /\ results[i].err = "IoError") => results[j].tag = "None"

\* C5: two callers sharing one JsonStreamReader receive every record of the
\* file exactly once between them: no record is delivered twice, each
\* delivered record is the value at its place in the file, and when a caller
\* is told end-of-stream every record of a well-formed file has been
\* delivered.
C5_SharedReaderExactlyOnce ==
    kind = "jsonstream" =>
        /\ \A i, j \in DOMAIN results :
               (i # j /\ results[i].tag = "Ok" /\ results[j].tag = "Ok")
                   => results[i].src # results[j].src
        /\ \A i \in DOMAIN results :
               results[i].tag = "Ok" =>
                   /\ results[i].src \in DOMAIN file
                   /\ results[i].val = file[results[i].src]
        /\ \A i \in DOMAIN results :
               (WellFormedJson /\ results[i].tag = "None") =>
                   \A k \in DOMAIN file :
                       \E j \in 1..(i - 1) :
                           results[j].tag = "Ok" /\ results[j].src = k

\* C5 witness: both callers' first calls found the reader uninitialized (the
\* first caller's open failed), both received a record and both were told
\* end-of-stream.
C5_Witness ==
    /\ kind = "jsonstream" /\ WellFormedJson /\ Len(file) >= 2
    /\ Len(results) >= 2
    /\ results[1].by = 1 /\ results[1].err = "IoError"
    /\ results[2].by = 2 /\ results[2].tag = "Ok"
    /\ \A c \in Callers :
           /\ \E i \in DOMAIN results : results[i].by = c /\ results[i].tag = "Ok"
           /\ \E i \in DOMAIN results : results[i].by = c /\ results[i].tag = "None"

\* C6: for a well-formed delimited file with a header and N data rows the
\* first N read_item calls return records, the i-th built from the i-th data
\* row, and every later call returns end-of-stream; an empty file returns
\* end-of-stream on the first call.
C6_CsvRecordsInOrder ==
    (kind = "csv" /\ WellFormedCsv /\ OpenedAtOnce) =>
        \A i \in DOMAIN results :
            IF i <= DataRows
            THEN /\ results[i].tag = "Ok"
                 /\ results[i].src = i + 1
                 /\ results[i].val = file[1]
            ELSE results[i].tag = "None"

\* C6 witness: two data rows read and end-of-stream reported after them.
C6_Witness ==
    /\ kind = "csv" /\ WellFormedCsv /\ OpenedAtOnce
    /\ DataRows = 2 /\ Len(results) = 4
    /\ results[2].tag = "Ok" /\ results[3].tag = "None"

\* C7: for a file of K well-formed JSON values the first K read_item calls
\* return those values, unchanged and in file order, and every later call
\* returns end-of-stream (no call having panicked).
C7_JsonValuesInOrder ==
    (kind = "jsonstream" /\ WellFormedJson /\ OpenedAtOnce /\ ~poisoned) =>
        \A i \in DOMAIN results :
            IF i <= Len(file)
            THEN /\ results[i].tag = "Ok"
                 /\ results[i].src = i
                 /\ results[i].val = file[i]
            ELSE results[i].tag = "None"

\* C7 witness: three values, two of them equal, read and end-of-stream
\* reported after them.
C7_Witness ==
    /\ kind = "jsonstream" /\ WellFormedJson /\ OpenedAtOnce /\ ~poisoned
    /\ Len(file) = 3 /\ file[1] = file[3] /\ file[1] # file[2]
    /\ Len(results) = 4
    /\ results[3].tag = "Ok" /\ results[4].tag = "None"

\* C8: with flexible = false each of the N data rows produces exactly one
\* result, in file order: an error for a row whose field count differs from
\* the header's, a record otherwise; then end-of-stream.
C8_StrictRowErrorIsLocal ==
    (kind = "csv" /\ ~flexible /\ OpenedAtOnce) =>
        \A i \in DOMAIN results :
            IF i <= DataRows
            THEN /\ results[i].src = i + 1
                 /\ results[i].tag = (IF file[i + 1] # file[1] THEN "Err" ELSE "Ok")
                 /\ results[i].tag = "Err" => results[i].err = "CsvError"
            ELSE results[i].tag = "None"

\* C8 witness: a mismatched row gave an error, the row after it a record,
\* and end-of-stream followed.
C8_Witness ==
    /\ kind = "csv" /\ ~flexible /\ OpenedAtOnce
    /\ Len(file) = 3 /\ file[2] # file[1] /\ file[3] = file[1]
    /\ Len(results) >= 3
    /\ results[1].tag = "Err" /\ results[2].tag = "Ok" /\ results[3].tag = "None"

\* C9: with flexible = true each of the N data rows, whatever its field
\* count, produces exactly one result (a record or an error) in file order,
\* and end-of-stream is reported only after the last row's result.
C9_FlexibleOneResultPerRow ==
    (kind = "csv" /\ flexible /\ OpenedAtOnce) =>
        \A i \in DOMAIN results :
            IF i <= DataRows
            THEN results[i].tag \in {"Ok", "Err"} /\ results[i].src = i + 1
            ELSE results[i].tag = "None"

\* C9 witness: a row shorter and a row longer than the header were both
\* read before end-of-stream.
C9_Witness ==
    /\ kind = "csv" /\ flexible /\ OpenedAtOnce
    /\ Len(file) = 3 /\ file[2] < file[1] /\ file[3] > file[1]
    /\ Len(results) >= 3
    /\ results[1].src = 2 /\ results[2].src = 3 /\ results[3].tag = "None"

\* C10: once the lock around the JSON iterator is poisoned, every read_item
\* call that returns returns an InitializationError.
C10_PoisonedAlwaysInitError ==
    [][(poisoned /\ results' # results)
          => results'[Len(results')].err = "InitializationError"]_vars

\* C10 witness: the lock was poisoned with values still unread, and two
\* calls after that returned InitializationError.
C10_Witness ==
    /\ poisoned /\ pos < Len(file) /\ ~failed
    /\ Len(results) >= 2
    /\ results[Len(results)].err = "InitializationError"
    /\ results[Len(results) - 1].err = "InitializationError"

\* A per-record error: a malformed row or a malformed JSON value.
Recoverable(r) == r.err \in {"CsvError", "JsonError"}

\* C11: for every reader kind and every condition of the file, a caller that
\* calls read_item until it returns end-of-stream stops after finitely many
\* calls.
C11_CallerLoopEnds == <>ToldEndOfStream

\* C12: constructing a reader opens no file, the first read_item call
\* performs the open, and once the handle is held no later call opens the
\* file again or replaces the handle.
C12_LazyOpenHandleKept ==
    /\ []((results = <<>> /\ ~poisoned)
            => (open_log = <<>> /\ ~_reader /\ ~_iterator))
    /\ [][(results = <<>> /\ ~poisoned /\ (results' # results \/ poisoned'))
            => Len(open_log') = 1]_vars
    /\ [][(_reader \/ _iterator)
            => /\ _reader' = _reader /\ _iterator' = _iterator
               /\ open_log' = open_log
               /\ pos' >= pos]_vars

\* C12 witness: the handle was acquired by a later call than the first and
\* two more calls were served from it.
C12_Witness ==
    /\ _reader /\ open_log = <<FALSE, TRUE>>
    /\ Len(results) = 4 /\ results[2].tag = "Ok" /\ results[3].tag = "Ok"

\* C13: when the file cannot be opened, the error read_item returns is the
\* IoError variant, for either reader kind.
C13_OpenErrorIsIoError ==
    AllOpensFailed =>
        \A i \in DOMAIN results :
            results[i].tag = "Err" => results[i].err = "IoError"

\* C13 witness: a reader of each kind is covered by a state of its own; here
\* a CsvReader has returned the open error.
C13_Witness ==
    /\ kind = "csv" /\ open_log # <<>> /\ AllOpensFailed
    /\ results # <<>> /\ results[1].tag = "Err"

\* C14: the CsvReader splits a row on the first byte of the delimiter string
\* (a comma when the string is empty) and on no other byte of it: a row
\* written with that byte as separator is read back field for field.
C14_SplitsOnFirstDelimiterByte ==
    (parsed.read /\ sep = (IF delimiter = <<>> THEN "," ELSE delimiter[1])) =>
        \A k \in DOMAIN parsed.records :
            /\ Len(parsed.records[k]) = Len(cols)
            /\ \A i \in DOMAIN cols : parsed.records[k][i].text = cols[i]

\* C14 witness: a two-byte delimiter whose second byte occurs inside a field
\* of a two-field row that was read.
C14_Witness ==
    /\ parsed.read /\ Len(parsed.records) = 1
    /\ Len(delimiter) = 2 /\ delimiter[1] = sep /\ delimiter[2] # sep
    /\ Len(cols) = 2 /\ Contains(cols[1], delimiter[2])

\* C15: every field is coerced by its text alone: a numeral to Number,
\* exactly true or false to Bool, any other text to String with the text
\* unchanged, and no text to Null.
C15_CoercionByTextNeverNull ==
    \A k \in DOMAIN parsed.records :
        \A i \in DOMAIN parsed.records[k] :
            LET f == parsed.records[k][i]
            IN  /\ f.value.type # "Null"
                /\ f.value.type = "Bool"
                     <=> f.text \in {<<"t", "r", "u", "e">>, <<"f", "a", "l", "s", "e">>}
                /\ f.value.type = "String" => f.value.text = f.text
                /\ (IsI64(f.text) \/ (IsFloat(f.text) /\ ~IsNonFinite(f.text)))
                     => f.value.type = "Number"

\* C16: construction builds the CsvReader for tag csv, the JsonStreamReader
\* for tag jsonstream, and fails for any other tag, for which no read_item
\* result is ever produced.
C16_TagDispatch ==
    kind # "unbuilt" =>
        /\ kind = (CASE tag = "csv" -> "csv"
                     [] tag = "jsonstream" -> "jsonstream"
                     [] OTHER -> "config_error")
        /\ kind = "config_error" => (~parsed.read /\ results = <<>>)

\* C17 as stated: a read_item call that returns a per-record error changes
\* nothing but the cursor: the handle was and stays present, no file is
\* opened, _initialized and the configuration are untouched.
C17_RowErrorMovesCursorOnly ==
    [][(results' # results /\ Recoverable(results'[Len(results')]))
         => /\ _reader \/ _iterator
            /\ _reader' = _reader /\ _iterator' = _iterator
            /\ open_log' = open_log
            /\ _initialized' = _initialized
            /\ kind' = kind /\ tag' = tag
            /\ flexible' = flexible /\ delimiter' = delimiter
            /\ poisoned' = poisoned
            /\ pos' > pos]_vars

\* C17 as amended: a read_item call that returns a per-record error leaves
\* the handle present, _initialized and the configuration untouched and the
\* cursor advanced; it opens the file only if it is the call that acquires
\* the handle, and then once.
C17_RowErrorKeepsLifecycle ==
    [][(results' # results /\ Recoverable(results'[Len(results')]))
         => /\ _reader' \/ _iterator'
            /\ _reader => _reader'
            /\ _iterator => _iterator'
            /\ open_log' = (IF _reader \/ _iterator THEN open_log
                                                   ELSE Append(open_log, TRUE))
            /\ _initialized' = _initialized
            /\ kind' = kind /\ tag' = tag
            /\ flexible' = flexible /\ delimiter' = delimiter
            /\ poisoned' = poisoned
            /\ pos' > pos]_vars

\* C17 witness: a reader that had returned a record returned a row error on
\* its next call and is neither failed nor without its handle.
C17_Witness ==
    /\ kind = "csv" /\ Len(results) >= 2
    /\ results[1].tag = "Ok" /\ results[2].err = "CsvError"
    /\ _reader /\ ~_initialized /\ open_log = <<TRUE>>

\* C18: a reader never reports end-of-stream for an unopenable file without
\* having returned the open error on an earlier call, whatever values the
\* configuration gave its fields.
C18_NeverSilentlyExhausted ==
    AllOpensFailed =>
        \A i \in DOMAIN results :
            results[i].tag = "None" =>
                \E j \in 1..(i - 1) : results[j].err = "IoError"

\* C19: the fallback errors "Failed to initialize reader" and
\* "JsonStreamReader not initialized" are never returned: a call that gets
\* past the initialization step finds the handle present.
C19_FallbackUnreachable ==
    \A i \in DOMAIN results :
        /\ results[i].msg \notin {"Failed to initialize reader",
                                  "JsonStreamReader not initialized"}
        /\ (results[i].tag = "Ok" \/ Recoverable(results[i])) => (_reader \/ _iterator)

\* C19 witness: after a failed initialization a later call got past the
\* initialization step and read a record.
C19_Witness ==
    /\ open_log = <<FALSE, TRUE>> /\ Len(results) >= 2
    /\ results[1].err = "IoError" /\ results[2].tag = "Ok"

====
